---------------------------- MODULE Spec2Model ----------------------------
(***************************************************************************)
(* A model of scheduletools' ScheduleParser (src/scheduletools/parser.py), *)
(* ScheduleExpander (expander.py) and CSVSplitter (splitter.py).           *)
(*                                                                         *)
(* Text is modelled as a sequence of one-character strings, so that        *)
(* trimming, splitting, parsing and formatting are computed the way the    *)
(* code computes them.  Python and pandas positions are 0-based; sequence  *)
(* positions here are 1-based, so grid row r of the code is element r+1.   *)
(***************************************************************************)
EXTENDS Integers, Sequences, FiniteSets, TLC

VARIABLES
    df,              \* self.df: the grid read by pd.read_csv, a sequence of columns
    config,          \* self.config
    reference_date,  \* self.reference_date, as a proleptic Gregorian ordinal
    pc,              \* "new" | "constructed" | "raised" | "parsed" | "called" | "expanded" | "split"
    result,          \* what parse_schedule returned or raised
    interval,        \* the argument of a direct _parse_time_and_duration call
    slot,            \* what that call returned
    args             \* the arguments of __init__ and the files it finds

vars == <<df, config, reference_date, pc, result, interval, slot, args>>

----------------------------------------------------------------------------
(* Characters and text.                                                    *)

Digits == <<"0", "1", "2", "3", "4", "5", "6", "7", "8", "9">>

UpperCase ==
    <<"A", "B", "C", "D", "E", "F", "G", "H", "I", "J", "K", "L", "M",
      "N", "O", "P", "Q", "R", "S", "T", "U", "V", "W", "X", "Y", "Z">>

LowerCase ==
    <<"a", "b", "c", "d", "e", "f", "g", "h", "i", "j", "k", "l", "m",
      "n", "o", "p", "q", "r", "s", "t", "u", "v", "w", "x", "y", "z">>

\* The characters the model's texts are made of, in code-point order.
CodePoints ==
    <<" ", "-", ".", "/">> \o Digits \o <<":">> \o UpperCase \o LowerCase

\* Each element's position in a sequence without repetitions.
Positions(seq) ==
    [c \in {seq[i] : i \in 1..Len(seq)} |-> CHOOSE i \in 1..Len(seq) : seq[i] = c]

\* Each character's position in CodePoints.
OrdTable == Positions(CodePoints)

\* ord(c), up to an order-preserving renumbering.
Ord(c) == OrdTable[c]

IsDigit(c) == \E n \in 1..10 : Digits[n] = c

DigitVal(c) == (CHOOSE n \in 1..10 : Digits[n] = c) - 1

DigitChar(n) == Digits[n + 1]

IsUpper(c) == \E n \in 1..26 : UpperCase[n] = c

\* str.lower() on one character.
LowerChar(c) ==
    IF IsUpper(c) THEN LowerCase[CHOOSE n \in 1..26 : UpperCase[n] = c] ELSE c

\* str.lower()
Lower(s) == [i \in 1..Len(s) |-> LowerChar(s[i])]

\* s[a..b] (1-based, inclusive), empty when a > b.
Slice(s, a, b) == [i \in 1..(IF b >= a THEN b - a + 1 ELSE 0) |-> s[a + i - 1]]

\* str.lstrip(ch): every leading ch is removed.
RECURSIVE LStripChar(_, _)
LStripChar(s, ch) ==
    IF Len(s) > 0 /\ s[1] = ch THEN LStripChar(Tail(s), ch) ELSE s

RECURSIVE RStripChar(_, _)
RStripChar(s, ch) ==
    IF Len(s) > 0 /\ s[Len(s)] = ch
    THEN RStripChar(Slice(s, 1, Len(s) - 1), ch)
    ELSE s

\* str.strip(): leading and trailing white space removed.
Strip(s) == RStripChar(LStripChar(s, " "), " ")

\* `sub in s` for texts.
Contains(s, sub) ==
    \E i \in 1..(Len(s) - Len(sub) + 1) : Slice(s, i, i + Len(sub) - 1) = sub

\* str.split(sep) / re.split(re.escape(sep), s) for a one-character sep:
\* the pieces between the separators, empty pieces kept.
RECURSIVE SplitOn(_, _)
SplitOn(s, sep) ==
    IF \A i \in 1..Len(s) : s[i] # sep
    THEN <<s>>
    ELSE LET k == CHOOSE i \in 1..Len(s) :
                     s[i] = sep /\ \A j \in 1..(i - 1) : s[j] # sep
         IN  <<Slice(s, 1, k - 1)>> \o SplitOn(Slice(s, k + 1, Len(s)), sep)

\* Python's < on str: code points compared left to right, a proper prefix first.
RECURSIVE StrLess(_, _)
StrLess(a, b) ==
    IF Len(b) = 0 THEN FALSE
    ELSE IF Len(a) = 0 THEN TRUE
    ELSE IF a[1] # b[1] THEN Ord(a[1]) < Ord(b[1])
    ELSE StrLess(Tail(a), Tail(b))

\* str(n) for n >= 0.
RECURSIVE NatToStr(_)
NatToStr(n) ==
    IF n < 10 THEN <<DigitChar(n)>>
    ELSE NatToStr(n \div 10) \o <<DigitChar(n % 10)>>

\* A text of digits filled with zeros on the left up to a width.
ZeroFill(d, width) == [i \in 1..(width - Len(d)) |-> "0"] \o d

\* f"{n:02}" and %m, %d, %H, %I, %M of strftime: at least two digits.
Pad2(n) == ZeroFill(NatToStr(n), 2)

\* %Y of strftime for the years a Timestamp holds: four digits.
Pad4(n) == ZeroFill(NatToStr(n), 4)

\* int(text) for a text of digits.
RECURSIVE StrToNat(_)
StrToNat(s) ==
    IF Len(s) = 0 THEN 0
    ELSE 10 * StrToNat(Slice(s, 1, Len(s) - 1)) + DigitVal(s[Len(s)])

AllDigits(s) == Len(s) > 0 /\ \A i \in 1..Len(s) : IsDigit(s[i])

----------------------------------------------------------------------------
(* Calendar arithmetic of datetime / pd.Timestamp.                         *)

IsLeap(y) == (y % 4 = 0 /\ y % 100 # 0) \/ y % 400 = 0

DaysInMonth(y, m) ==
    IF m = 2 THEN (IF IsLeap(y) THEN 29 ELSE 28)
    ELSE IF m \in {4, 6, 9, 11} THEN 30 ELSE 31

RECURSIVE DaysBeforeMonth(_, _)
DaysBeforeMonth(y, m) ==
    IF m = 1 THEN 0 ELSE DaysBeforeMonth(y, m - 1) + DaysInMonth(y, m - 1)

\* date(y, m, d).toordinal(): 1 is 0001-01-01.
ToOrdinal(y, m, d) ==
    LET py == y - 1
    IN  py * 365 + (py \div 4) - (py \div 100) + (py \div 400)
        + DaysBeforeMonth(y, m) + d

\* strftime("%A"): date.weekday() is (toordinal() + 6) % 7, Monday first.
DayNames ==
    <<"Monday", "Tuesday", "Wednesday", "Thursday", "Friday", "Saturday", "Sunday">>

DayName(ordinal) == DayNames[((ordinal + 6) % 7) + 1]

----------------------------------------------------------------------------
(* strptime / strftime, as pd.to_datetime(text, format=...) and            *)
(* Timestamp.strftime use them.  A format is a sequence of items, each a   *)
(* directive ("%I") or one literal character.                              *)

Directives == {"%Y", "%m", "%d", "%H", "%I", "%M", "%p"}

IsDirective(item) == item \in Directives

\* The fields of a parse before any directive has matched: strptime's
\* defaults are 1900-01-01 00:00, no 12-hour hour, no AM/PM.
Unparsed ==
    [ok |-> TRUE, Y |-> 1900, m |-> 1, d |-> 1, H |-> -1, I |-> -1, M |-> 0, p |-> -1]

Mismatch == [Unparsed EXCEPT !.ok = FALSE]

\* The widths a directive's regular expression can match, in the order its
\* alternatives are tried.
DirectiveWidths(item) ==
    CASE item = "%Y" -> <<4>>
      [] item = "%p" -> <<2>>
      [] OTHER -> <<2, 1>>

\* The value %p reads from a lower-cased text.
Meridiem(text) ==
    CASE text = <<"a", "m">> -> 0
      [] text = <<"p", "m">> -> 1
      [] OTHER -> -1

\* The least value a numeric directive accepts.
LeastValue(item) == IF item \in {"%I", "%m", "%d"} THEN 1 ELSE 0

\* The greatest value a numeric directive accepts.
GreatestValue(item) ==
    CASE item \in {"%I", "%m"} -> 12
      [] item = "%d" -> 31
      [] item = "%M" -> 59
      [] item = "%H" -> 23
      [] OTHER -> 9999

\* v when it lies in lo..hi, else -1.
Within(v, lo, hi) == IF v >= lo /\ v <= hi THEN v ELSE -1

\* The value a directive reads from text, -1 when its regular expression
\* does not match the whole of text:
\*   %I, %m  1[0-2]|0[1-9]|[1-9]      %M  [0-5]\d|\d      %H  2[0-3]|[0-1]\d|\d
\*   %d  3[01]|[12]\d|0[1-9]|[1-9]     %Y  \d\d\d\d         %p  am|pm (any case)
DirectiveValue(item, text) ==
    IF item = "%p" THEN Meridiem(Lower(text))
    ELSE IF ~AllDigits(text) THEN -1
    ELSE Within(StrToNat(text), LeastValue(item), GreatestValue(item))

\* The field a directive sets.
DirectiveField(item) ==
    CASE item = "%Y" -> "Y" [] item = "%m" -> "m" [] item = "%d" -> "d"
      [] item = "%H" -> "H" [] item = "%I" -> "I" [] item = "%M" -> "M"
      [] item = "%p" -> "p"

\* The format's regular expression matched against the whole of s (exact
\* matching): fields read so far in acc, a directive's alternatives tried
\* in order with backtracking, a blank in the format matching one or more
\* blanks.
RECURSIVE MatchFormat(_, _, _)

\* The rest of the match once the format's first directive has read the
\* value v from the first w characters of s.
MatchRest(fmt, s, acc, w, v) ==
    IF v = -1 THEN Mismatch
    ELSE MatchFormat(Tail(fmt), Slice(s, w + 1, Len(s)),
                     [acc EXCEPT ![DirectiveField(Head(fmt))] = v])

\* The match with the format's first directive reading w characters.
TryWidth(fmt, s, acc, w) ==
    IF Len(s) >= w
    THEN MatchRest(fmt, s, acc, w, DirectiveValue(Head(fmt), Slice(s, 1, w)))
    ELSE Mismatch

\* The first of two matches that succeeded.
FirstMatch(first, second) == IF first.ok THEN first ELSE second

\* The match with the format's first directive reading one of the widths
\* ws, the earlier width preferred.
RECURSIVE TryWidths(_, _, _, _)
TryWidths(fmt, s, acc, ws) ==
    IF Len(ws) = 0 THEN Mismatch
    ELSE FirstMatch(TryWidth(fmt, s, acc, Head(ws)), TryWidths(fmt, s, acc, Tail(ws)))

MatchFormat(fmt, s, acc) ==
    IF Len(fmt) = 0 THEN (IF Len(s) = 0 THEN acc ELSE Mismatch)
    ELSE IF Head(fmt) = " "
    THEN (IF Len(s) > 0 /\ s[1] = " "
          THEN MatchFormat(Tail(fmt), LStripChar(s, " "), acc)
          ELSE Mismatch)
    ELSE IF ~IsDirective(Head(fmt))
    THEN (IF Len(s) > 0 /\ LowerChar(s[1]) = LowerChar(Head(fmt))
          THEN MatchFormat(Tail(fmt), Tail(s), acc)
          ELSE Mismatch)
    ELSE TryWidths(fmt, s, acc, DirectiveWidths(Head(fmt)))

\* The hour of day of a parse: %H, or %I with %p (12 am is 0, 12 pm is 12).
HourOf(f) ==
    IF f.H # -1 THEN f.H
    ELSE IF f.I # -1 THEN (f.I % 12) + (IF f.p = 1 THEN 12 ELSE 0)
    ELSE 0

\* What stands for a call of to_datetime that raised.
Raised == [kind |-> "error", Y |-> 0, m |-> 0, d |-> 0, minutes |-> 0]

\* NaT
NaT == [kind |-> "nat", Y |-> 0, m |-> 0, d |-> 0, minutes |-> 0]

\* The Timestamp of a match: its calendar date and the time as minutes
\* since midnight; the call raises without a match and on a day the month
\* does not have.
TimestampOf(f) ==
    IF ~f.ok THEN Raised
    ELSE IF f.d > DaysInMonth(f.Y, f.m) THEN Raised
    ELSE [kind |-> "ts", Y |-> f.Y, m |-> f.m, d |-> f.d,
          minutes |-> HourOf(f) * 60 + f.M]

\* pd.to_datetime(text, format=fmt): [kind |-> "ts"] for a Timestamp,
\* [kind |-> "nat"] for an empty text (NaT, no exception), [kind |-> "error"]
\* when the call raises.
ToDatetime(text, fmt) ==
    IF Len(text) = 0 THEN NaT ELSE TimestampOf(MatchFormat(fmt, text, Unparsed))

\* The day number of a Timestamp's date.
OrdinalOf(ts) == ToOrdinal(ts.Y, ts.m, ts.d)

\* The hour of day of a Timestamp.
Hour(ts) == ts.minutes \div 60

\* The hour on a 12-hour clock.
Hour12(h) == IF h % 12 = 0 THEN 12 ELSE h % 12

\* The number a numeric strftime directive prints.
FieldOf(item, ts) ==
    CASE item = "%m" -> ts.m
      [] item = "%d" -> ts.d
      [] item = "%H" -> Hour(ts)
      [] item = "%I" -> Hour12(Hour(ts))
      [] item = "%M" -> ts.minutes % 60

\* One strftime item.
FormatItem(item, ts) ==
    CASE item = "%Y" -> Pad4(ts.Y)
      [] item = "%p" -> (IF Hour(ts) < 12 THEN <<"A", "M">> ELSE <<"P", "M">>)
      [] item \in {"%m", "%d", "%H", "%I", "%M"} -> Pad2(FieldOf(item, ts))
      [] OTHER -> <<item>>

\* Timestamp.strftime(fmt)
RECURSIVE Strftime(_, _)
Strftime(ts, fmt) ==
    IF Len(fmt) = 0 THEN <<>>
    ELSE FormatItem(Head(fmt), ts) \o Strftime(ts, Tail(fmt))

----------------------------------------------------------------------------
(* ScheduleParser._parse_time_and_duration                                 *)

\* Python's None; no text equals it, a text's elements being one character.
None == <<"None">>

\* `not x` for a text or None.
Falsy(x) == x = None \/ Len(x) = 0

NoSlot == [start_time |-> None, duration |-> None]

\* The two patterns each half of an interval is tried against, in order.
time_format_attempts ==
    << <<"%I", " ", "%p">>, <<"%I", ":", "%M", " ", "%p">> >>

\* The Timestamp a loop that broke at once gave, else what the rest of the
\* loop gives.
OrElse(dt, later) == IF dt.kind # "error" THEN dt ELSE later

\* The for-loop over the patterns: the first pattern under which
\* to_datetime does not raise wins (an empty half gives NaT and wins at
\* once); the variable stays None when every pattern raises.
RECURSIVE FirstParse(_, _)
FirstParse(text, attempts) ==
    IF Len(attempts) = 0 THEN [Raised EXCEPT !.kind = "none"]
    ELSE OrElse(ToDatetime(text, Head(attempts)), FirstParse(text, Tail(attempts)))

\* f"{hours}:{minutes:02}" of a duration in minutes.
DurationStr(minutes) == NatToStr(minutes \div 60) \o <<":">> \o Pad2(minutes % 60)

\* DurationMinutes with the distance between the two times taken, and no
\* day added to an end before the start.
DurationMinutes_Abs(start_dt, end_dt) ==
    IF end_dt.minutes < start_dt.minutes
    THEN start_dt.minutes - end_dt.minutes
    ELSE end_dt.minutes - start_dt.minutes

\* end_dt - start_dt in minutes, after the roll over midnight.
DurationMinutes(start_dt, end_dt) ==
    IF end_dt.minutes < start_dt.minutes
    THEN end_dt.minutes + 24 * 60 - start_dt.minutes
    ELSE end_dt.minutes - start_dt.minutes

\* Lines 69-77: the slot of the two parsed halves.  A half that reads as
\* NaT ends in the except branch: the duration of NaT has no integer number
\* of seconds.
SlotOf(cfg, dts) ==
    IF dts[1].kind # "ts" \/ dts[2].kind # "ts" THEN NoSlot
    ELSE [start_time |-> LStripChar(Strftime(dts[1], cfg.Format.Time), "0"),
          duration |-> DurationStr(DurationMinutes(dts[1], dts[2]))]

\* Lines 49-77: the unpacking of the split raises unless it gives two halves.
SlotOfHalves(cfg, halves) ==
    IF Len(halves) # 2 THEN NoSlot
    ELSE SlotOf(cfg, [i \in 1..2 |-> FirstParse(Strip(halves[i]), time_format_attempts)])

\* Lines 44-80, on the stripped interval.
SlotOfStripped(cfg, s) ==
    IF Contains(s, <<"T", "i", "m", "e">>) \/ Len(s) = 0 \/ ~Contains(s, <<"-">>)
    THEN NoSlot
    ELSE SlotOfHalves(cfg, SplitOn(Lower(s), "-"))

\* _parse_time_and_duration(interval) for a text interval.
_parse_time_and_duration(cfg, text) == SlotOfStripped(cfg, Strip(text))

----------------------------------------------------------------------------
(* The grid.  A cell is NaN, a text, or a number (with the text str()      *)
(* gives for it); a column is a sequence of cells, a grid a sequence of    *)
(* columns of one length.                                                  *)

NaN == [t |-> "nan", s |-> <<>>]

Text(s) == [t |-> "str", s |-> s]

Number(s) == [t |-> "num", s |-> s]

\* pd.isna(cell)
isna(cell) == cell.t = "nan"

\* pd.read_csv(..., header=None) on one column of the file's fields: an empty
\* field is NaN; a column whose other fields are all whole numbers is
\* numeric (float64 when a field is missing, else int64); any other column
\* keeps its fields as text.
InferColumn(fields) ==
    LET filled == {i \in 1..Len(fields) : Len(fields[i]) > 0}
        numeric == filled # {} /\ \A i \in filled : AllDigits(fields[i])
        float == filled # 1..Len(fields)
    IN  [i \in 1..Len(fields) |->
            IF i \notin filled THEN NaN
            ELSE IF ~numeric THEN Text(fields[i])
            ELSE Number(NatToStr(StrToNat(fields[i]))
                        \o (IF float THEN <<".", "0">> ELSE <<>>))]

\* pd.read_csv(schedule_path, sep="\t", header=None)
read_csv(file) == [c \in 1..Len(file) |-> InferColumn(file[c])]

\* df.shape
NumCols(d) == Len(d)

NumRows(d) == IF Len(d) = 0 THEN 0 ELSE Len(d[1])

\* The concatenation of a sequence of sequences.
RECURSIVE Flatten(_)
Flatten(ss) == IF Len(ss) = 0 THEN <<>> ELSE Head(ss) \o Flatten(Tail(ss))

\* The subsequence of s at the positions in keep, in order.
RECURSIVE SelectAt(_, _, _)
SelectAt(s, keep, i) ==
    IF i > Len(s) THEN <<>>
    ELSE (IF i \in keep THEN <<s[i]>> ELSE <<>>) \o SelectAt(s, keep, i + 1)

----------------------------------------------------------------------------
(* ScheduleParser._parse_block                                             *)

\* TeamList with the pieces of a split cell left untrimmed.
TeamList_PiecesNotStripped(cfg, team_entry) ==
    LET team_str == IF isna(team_entry) THEN <<>> ELSE Strip(team_entry.s)
        pieces == SplitOn(team_str, cfg.Split.Separator)
    IN  IF Len(team_str) = 0
        THEN (IF cfg.Missing_Values.Omit THEN <<>>
              ELSE <<cfg.Missing_Values.Replacement>>)
        ELSE IF cfg.Split.Skip THEN <<team_str>>
        ELSE SelectAt(pieces, {k \in 1..Len(pieces) : Len(Strip(pieces[k])) > 0}, 1)

\* TeamList with the Omit flag never read: an empty cell always gives the
\* replacement.
TeamList_OmitIgnored(cfg, team_entry) ==
    LET team_str == IF isna(team_entry) THEN <<>> ELSE Strip(team_entry.s)
        pieces == SplitOn(team_str, cfg.Split.Separator)
        stripped == [k \in 1..Len(pieces) |-> Strip(pieces[k])]
    IN  IF Len(team_str) = 0 THEN <<cfg.Missing_Values.Replacement>>
        ELSE IF cfg.Split.Skip THEN <<team_str>>
        ELSE SelectAt(stripped, {k \in 1..Len(stripped) : Len(stripped[k]) > 0}, 1)

\* team_str: the cell's text stripped, empty for NaN.
team_str(team_entry) == IF isna(team_entry) THEN <<>> ELSE Strip(team_entry.s)

\* [t.strip() for t in pieces if t.strip()]
StrippedNonEmpty(stripped) ==
    SelectAt(stripped, {k \in 1..Len(stripped) : Len(stripped[k]) > 0}, 1)

\* Each piece of a split, stripped.
StripEach(pieces) == [k \in 1..Len(pieces) |-> Strip(pieces[k])]

\* team_list for a stripped cell text, empty when the cell is skipped.
TeamsOf(cfg, text) ==
    IF Len(text) = 0
    THEN (IF cfg.Missing_Values.Omit THEN <<>>
          ELSE <<cfg.Missing_Values.Replacement>>)
    ELSE IF cfg.Split.Skip THEN <<text>>
    ELSE StrippedNonEmpty(StripEach(SplitOn(text, cfg.Split.Separator)))

\* The participants of one cell: team_list, empty when the cell is skipped.
TeamList(cfg, team_entry) == TeamsOf(cfg, team_str(team_entry))

\* Whether a date cell's row is skipped before its date is parsed.
SkipDate(date_str) == isna(date_str) \/ Contains(Lower(date_str.s), <<"i", "c", "e">>)

\* Week with the division rounding toward zero.
Week_Truncated(date_obj, ref) ==
    LET days == OrdinalOf(date_obj) - OrdinalOf(ref)
    IN  IF days >= 0 THEN days \div 7 ELSE -((-days) \div 7)

\* (date_obj - self.reference_date).days // 7
Week(date_obj, ref) == (OrdinalOf(date_obj) - OrdinalOf(ref)) \div 7

\* Lines 117-125: one row per participant of a cell whose date parsed.
DatedRows(ref, cfg, slot_, date_obj, team_list) ==
    IF date_obj.kind # "ts" THEN <<>>
    ELSE [k \in 1..Len(team_list) |->
             [Week |-> Week(date_obj, ref),
              Day |-> DayName(OrdinalOf(date_obj)),
              Date |-> Strftime(date_obj, cfg.Format.Date),
              Start_Time |-> slot_.start_time,
              Duration |-> slot_.duration,
              Team |-> team_list[k]]]

\* The rows one participant cell appends.
CellRows(cfg, ref, slot_, date_str, team_entry) ==
    IF SkipDate(date_str) THEN <<>>
    ELSE DatedRows(ref, cfg, slot_, ToDatetime(date_str.s, cfg.Format.Date),
                   TeamList(cfg, team_entry))

\* Whether a column's time header makes _parse_time_and_duration raise:
\* interval.strip() on a cell that is not text (AttributeError, outside the try).
HeaderRaises(time_interval) == ~isna(time_interval) /\ time_interval.t # "str"

\* `not (start_time and duration)`
NoTimeSlot(ts) == ~(~Falsy(ts.start_time) /\ ~Falsy(ts.duration))

\* Whether a column is skipped: no time header, or no usable time slot.
SkipColumn(cfg, time_interval) ==
    \/ isna(time_interval)
    \/ NoTimeSlot(_parse_time_and_duration(cfg, time_interval.s))

\* Lines 93-125: the rows of a column whose header gave the slot ts.
SlotRows(cfg, ref, block, c, ts) ==
    IF NoTimeSlot(ts) THEN <<>>
    ELSE Flatten([i \in 1..(Len(block[c]) - 3) |->
             CellRows(cfg, ref, ts, block[1][3 + i], block[c][3 + i])])

\* The rows one data column of a block appends.
ColumnRows(cfg, ref, block, c) ==
    IF isna(block[c][3]) THEN <<>>
    ELSE SlotRows(cfg, ref, block, c, _parse_time_and_duration(cfg, block[c][3].s))

\* _parse_block(block): the rows of its data columns, left to right, or the
\* exception a header cell raises.
_parse_block(cfg, ref, block) ==
    IF \E c \in 2..Len(block) : HeaderRaises(block[c][3])
    THEN [raised |-> "AttributeError", rows |-> <<>>]
    ELSE [raised |-> "",
          rows |-> Flatten([k \in 1..(Len(block) - 1) |->
                       ColumnRows(cfg, ref, block, k + 1)])]

----------------------------------------------------------------------------
(* ScheduleParser.parse_schedule                                           *)

\* The marker test on a cell of the grid's second row.
IsMarker(val) == val.t = "str" /\ Lower(Strip(val.s)) = <<"d", "a", "t", "e">>

\* date_cols, left to right.
date_cols(d) == SelectAt([c \in 1..NumCols(d) |-> c],
                         {c \in 1..NumCols(d) : IsMarker(d[c][2])}, 1)

\* BlockCols with every block running to the grid's last column.
BlockCols_ToGridEnd(d, i) == date_cols(d)[i]..NumCols(d)

\* The columns of the i-th block: from its marker to the next marker or the
\* grid's last column.
BlockCols(d, i) ==
    LET dc == date_cols(d)
    IN  IF i < Len(dc) THEN dc[i]..(dc[i + 1] - 1) ELSE dc[i]..NumCols(d)

\* The rows the mask keeps: the first three, and each later row whose first
\* cell in the block is not NaN.
KeptRows(d, first_col) ==
    {r \in 1..NumRows(d) : r <= 3 \/ ~isna(d[first_col][r])}

\* subset[mask]: the block's columns, restricted to the kept rows.
Block(d, i) ==
    LET cols == BlockCols(d, i)
        first == date_cols(d)[i]
    IN  [k \in 1..Cardinality(cols) |->
            SelectAt(d[first + k - 1], KeptRows(d, first), 1)]

\* blocks
Blocks(d) == [i \in 1..Len(date_cols(d)) |-> Block(d, i)]

\* KeyLess with the sort made on the Date column alone.
KeyLess_DateOnly(a, b) == OrdinalOf(a.Date) < OrdinalOf(b.Date)

\* (da, sa) < (db, sb), a date and then a text.
PairLess(da, sa, db, sb) == da < db \/ (da = db /\ StrLess(sa, sb))

\* The sort key of sort_values(["Date", "Start Time"]): Date as the
\* datetime64 column line 148 made of it, Start Time as the text it is.
KeyLess(a, b) ==
    PairLess(OrdinalOf(a.Date), a.Start_Time, OrdinalOf(b.Date), b.Start_Time)

\* InsertRow with the row put before the rows equal to it: a sort that is
\* not stable.
RECURSIVE InsertRow_BeforeEqual(_, _)
InsertRow_BeforeEqual(sorted, row) ==
    IF Len(sorted) = 0 THEN <<row>>
    ELSE IF ~KeyLess(Head(sorted), row) THEN <<row>> \o sorted
    ELSE <<Head(sorted)>> \o InsertRow_BeforeEqual(Tail(sorted), row)

\* One row put into a sorted sequence, after every row not greater than it.
RECURSIVE InsertRow(_, _)
InsertRow(sorted, row) ==
    IF Len(sorted) = 0 THEN <<row>>
    ELSE IF KeyLess(row, Head(sorted)) THEN <<row>> \o sorted
    ELSE <<Head(sorted)>> \o InsertRow(Tail(sorted), row)

\* sort_values on several keys: a stable sort.
RECURSIVE SortRows(_)
SortRows(rows) ==
    IF Len(rows) = 0 THEN <<>>
    ELSE InsertRow(SortRows(Slice(rows, 1, Len(rows) - 1)), rows[Len(rows)])

\* reset_index: the row at position k gets Index k - 1.
WithIndex(rows) ==
    [k \in 1..Len(rows) |->
        [Index |-> k - 1, Week |-> rows[k].Week, Day |-> rows[k].Day,
         Date |-> rows[k].Date, Start_Time |-> rows[k].Start_Time,
         Duration |-> rows[k].Duration, Team |-> rows[k].Team]]

\* Line 148: the Date column read back as dates.
DatesParsed(cfg, rows) ==
    [k \in 1..Len(rows) |->
        [rows[k] EXCEPT !.Date = ToDatetime(rows[k].Date, cfg.Format.Date)]]

\* Line 150: the Date column formatted again after the sort.
DatesFormatted(cfg, sorted) ==
    [k \in 1..Len(sorted) |->
        [sorted[k] EXCEPT !.Date = Strftime(sorted[k].Date, cfg.Format.Date)]]

\* MergeAndOrder with the index set at the concat and carried through the
\* sort (sort_values without reset_index(drop=True)).
MergeAndOrder_IndexBeforeSort(cfg, dfs) ==
    DatesFormatted(cfg, SortRows(DatesParsed(cfg, WithIndex(Flatten(dfs)))))

\* Lines 147-153: concat, the Date column parsed and formatted again around
\* the sort, the index named and reset.
MergeAndOrder(cfg, dfs) ==
    WithIndex(DatesFormatted(cfg, SortRows(DatesParsed(cfg, Flatten(dfs)))))

\* _parse_block on each block.
ParsedBlocks(cfg, ref, blocks) ==
    [i \in 1..Len(blocks) |-> _parse_block(cfg, ref, blocks[i])]

\* The row lists that are not empty, in order.
NotEmpty(frames) ==
    SelectAt(frames, {i \in 1..Len(frames) : Len(frames[i]) > 0}, 1)

\* The row list of each parsed block.
RowLists(parsed) == [i \in 1..Len(parsed) |-> parsed[i].rows]

\* dfs: the row lists of the blocks that gave a row, in block order.
NonEmptyFrames(cfg, ref, d) == NotEmpty(RowLists(ParsedBlocks(cfg, ref, Blocks(d))))

\* Lines 144-153: the table of the frames.
TableOf(cfg, dfs) ==
    IF Len(dfs) = 0 THEN [raised |-> "", table |-> <<>>]
    ELSE [raised |-> "", table |-> MergeAndOrder(cfg, dfs)]

\* Lines 142-153 for the blocks as _parse_block read them.
ResultOf(cfg, parsed) ==
    IF \E i \in 1..Len(parsed) : parsed[i].raised # ""
    THEN [raised |-> "AttributeError", table |-> <<>>]
    ELSE TableOf(cfg, NotEmpty(RowLists(parsed)))

\* parse_schedule(): the table returned, or the exception raised.
parse_schedule(cfg, ref, d) == ResultOf(cfg, ParsedBlocks(cfg, ref, Blocks(d)))

----------------------------------------------------------------------------
(* Configurations, reference dates and input files.                        *)

\* ScheduleParser.DEFAULT_CONFIG ("Duration" is never read).
DEFAULT_CONFIG ==
    [Format |-> [Date |-> <<"%m", "/", "%d", "/", "%Y">>,
                 Time |-> <<"%I", ":", "%M", " ", "%p">>],
     Missing_Values |-> [Omit |-> TRUE, Replacement |-> <<"m", "i", "s", "s", "i", "n", "g">>],
     Split |-> [Skip |-> FALSE, Separator |-> "/"]]

\* pd.to_datetime(reference_date) of a "YYYY-MM-DD" text.
ReferenceDate(text) == ToDatetime(text, <<"%Y", "-", "%m", "-", "%d">>)

\* The default of __init__'s reference_date.
DefaultReference == ReferenceDate(<<"2", "0", "2", "5", "-", "0", "9", "-", "0", "2">>)

\* A file column that opens a block when its second field is the marker:
\* label, marker, nothing in the time row, then the date fields.
MarkerColumn(marker, dates) == <<<<>>, marker, <<>>>> \o dates

\* A file column of participants: no label, nothing in the marker row, the
\* interval in the time row, then the participant fields.
DataColumn(time_interval, teams) == <<<<>>, <<>>, time_interval>> \o teams

\* The columns of nrows data rows over the pools p.
Columns(p, nrows) ==
    {MarkerColumn(mk, ds) : mk \in p.markers, ds \in [1..nrows -> p.dates]}
    \cup {DataColumn(iv, tm) : iv \in p.intervals, tm \in [1..nrows -> p.teams]}

\* The files of ncols columns and nrows data rows with ncols + nrows <= shape,
\* of two columns or more, so that no line of a file is blank (read_csv
\* skips a blank line).
Files(p, shape) ==
    UNION {[1..wr[1] -> Columns(p, wr[2])] :
              wr \in {x \in (2..shape) \X (1..shape) : x[1] + x[2] <= shape}}

\* The largest ncols + nrows of the files with anomalies.
MaxShape == 4

\* Fields for files with anomalies: a marker (to be trimmed and lower-cased)
\* and a near miss; a date, a meta row, a day the month does not have and
\* an empty date; an interval, an empty one, one with a half that is no
\* time and a bare number; a participant and an empty cell.
AnomalyPools ==
    [markers |-> {<<" ", "d", "a", "t", "e", " ">>,
                  <<"D", "a", "y">>},
     dates |-> {<<"7", "/", "2", "1", "/", "2", "0", "2", "5">>,
                <<"I", "c", "e", " ", "T", "i", "m", "e">>,
                <<"2", "/", "3", "0", "/", "2", "0", "2", "5">>,
                <<>>},
     intervals |-> {<<"6", " ", "p", "m", " ", "-", " ", "7", " ", "p", "m">>,
                    <<>>,
                    <<"6", " ", "p", "m", " ", "-", " ", "7">>,
                    <<"6">>},
     teams |-> {<<"A">>,
                <<>>}]

\* The largest ncols + nrows of the files whose rows must be ordered.
MaxOrderShape == 5

\* Fields for files whose rows must be ordered: two dates whose texts order
\* against their days, two intervals whose start texts order against their
\* times, a cell of two participants and a cell of one.
OrderPools ==
    [markers |-> {<<"D", "a", "t", "e">>},
     dates |-> {<<"7", "/", "2", "1", "/", "2", "0", "2", "5">>,
                <<"1", "0", "/", "1", "/", "2", "0", "2", "4">>},
     intervals |-> {<<"9", " ", "a", "m", " ", "-", " ", "1", "0", " ", "a", "m">>,
                    <<"1", "0", " ", "a", "m", " ", "-", " ", "1", "1", " ", "a", "m">>},
     teams |-> {<<"A", " ", "/", " ", "B">>,
                <<"C">>}]

\* The two-block file of the end-to-end scenario: "6 pm - 7:15 pm" over
\* "16U / 18U" and "6:00 pm - 7:00 pm" over "12U", both on 7/21/2025.
ScenarioFile ==
    << MarkerColumn(<<"D", "a", "t", "e">>, <<<<"7", "/", "2", "1", "/", "2", "0", "2", "5">>>>),
       DataColumn(<<"6", " ", "p", "m", " ", "-", " ", "7", ":", "1", "5", " ", "p", "m">>, <<<<"1", "6", "U", " ", "/", " ", "1", "8", "U">>>>),
       MarkerColumn(<<"D", "a", "t", "e">>, <<<<"7", "/", "2", "1", "/", "2", "0", "2", "5">>>>),
       DataColumn(<<"6", ":", "0", "0", " ", "p", "m", " ", "-", " ", "7", ":", "0", "0", " ", "p", "m">>, <<<<"1", "2", "U">>>>) >>

----------------------------------------------------------------------------
(* The state machine: a ScheduleParser is constructed (Init), then         *)
(* parse_schedule is called on it once.                                    *)

NoResult == [raised |-> "", table |-> <<>>]

\* No arguments on record: the state is given as __init__ left it.
NoArgs == [config_path |-> None]

\* The state __init__ leaves, before any call.
Constructed(file, cfg, ref) ==
    /\ df = read_csv(file)
    /\ config = cfg
    /\ reference_date = ref
    /\ pc = "constructed"
    /\ result = NoResult
    /\ interval = <<>>
    /\ slot = NoSlot
    /\ args = NoArgs

\* A call of parse_schedule().
ParseSchedule ==
    /\ pc = "constructed"
    /\ result' = parse_schedule(config, reference_date, df)
    /\ pc' = "parsed"
    /\ UNCHANGED <<df, config, reference_date, interval, slot, args>>

Next == ParseSchedule

\* Files with anomalies, under the default configuration.
Init ==
    \E file \in Files(AnomalyPools, MaxShape) :
        Constructed(file, DEFAULT_CONFIG, DefaultReference)

Spec == Init /\ [][Next]_vars

\* The files over OrderPools whose first column opens a block.
OrderFiles ==
    {file \in Files(OrderPools, MaxOrderShape) : file[1][2] \in OrderPools.markers}

\* Files whose rows must be ordered, and the scenario's file.
InitOrder ==
    \E file \in OrderFiles \cup {ScenarioFile} :
        Constructed(file, DEFAULT_CONFIG, DefaultReference)

SpecOrder == InitOrder /\ [][Next]_vars

\* The texts of at most n characters over an alphabet.
TextsUpTo(alphabet, n) == UNION {[1..k -> alphabet] : k \in 0..n}

\* The longest participant cell drawn character by character.
MaxCellLen == 4

\* Participant cells: every text of a participant letter, the two
\* separators and the blank, and the two cells the specification names.
CellTexts ==
    TextsUpTo({"A", "/", ",", " "}, MaxCellLen) \cup {<<"A", " ", "/", " ", "B">>, <<"1", "6", "U", " ", "/", " ", "1", "8", "U">>}

\* The configurations of a config file that sets Omit, Skip and Separator.
CellConfigs ==
    {[DEFAULT_CONFIG EXCEPT !.Missing_Values.Omit = o, !.Split.Skip = k,
                            !.Split.Separator = sep] :
        o \in BOOLEAN, k \in BOOLEAN, sep \in {"/", ","}}

\* A file of one block with one data column and one data row.
OneCellFile(date, time_interval, team) ==
    <<MarkerColumn(<<"D", "a", "t", "e">>, <<date>>), DataColumn(time_interval, <<team>>)>>

\* One participant cell on a valid date row under a valid time column.
InitCell ==
    \E team \in CellTexts, cfg \in CellConfigs :
        Constructed(OneCellFile(<<"7", "/", "2", "1", "/", "2", "0", "2", "5">>, <<"6", " ", "p", "m", " ", "-", " ", "7", " ", "p", "m">>, team), cfg, DefaultReference)

SpecCell == InitCell /\ [][Next]_vars

\* The date texts m/d/y of the given years, days no month has included.
DateTexts(years) ==
    {NatToStr(m) \o <<"/">> \o NatToStr(d) \o <<"/">> \o NatToStr(y) :
        m \in 1..12, d \in 1..31, y \in years}

\* One entry per date of two years, against the default reference date and
\* the one the repository's tests pass.
InitWeek ==
    \E date \in DateTexts({2024, 2025}),
       ref \in {DefaultReference, ReferenceDate(<<"2", "0", "2", "5", "-", "0", "7", "-", "2", "1">>)} :
        Constructed(OneCellFile(date, <<"6", " ", "p", "m", " ", "-", " ", "7", " ", "p", "m">>, <<"A">>), DEFAULT_CONFIG, ref)

SpecWeek == InitWeek /\ [][Next]_vars

\* The texts of a time of day: an hour, perhaps minutes, and am or pm.
HalfTexts ==
    {NatToStr(h) \o mm \o ap :
        h \in 1..12,
        mm \in {<<>>, <<":", "0", "0">>, <<":", "1", "5">>, <<":", "5", "9">>},
        ap \in {<<" ", "a", "m">>, <<" ", "p", "m">>}}

\* Interval texts: every pair of times of day, and texts that are a label,
\* empty, without separator, with two separators, with a half that is no
\* time or is missing, in capitals, unspaced and padded.
IntervalTexts ==
    {a \o <<" ", "-", " ">> \o b : a \in HalfTexts, b \in HalfTexts}
    \cup {<<"T", "i", "m", "e">>,
           <<>>,
           <<"6", " ", "p", "m">>,
           <<"6", " ", "p", "m", " ", "-", " ", "7">>,
           <<"6", "-", "7", "-", "8">>,
           <<"1", "3", " ", "p", "m", " ", "-", " ", "2", " ", "p", "m">>,
           <<"-", " ", "7", " ", "p", "m">>,
           <<"6", " ", "P", "M", "-", "7", ":", "1", "5", " ", "P", "M">>,
           <<" ", " ", "6", " ", "p", "m", " ", " ", "-", " ", " ", "7", " ", "p", "m", " ", " ">>,
           <<"T", "i", "m", "e", " ", "6", " ", "p", "m", " ", "-", " ", "7", " ", "p", "m">>,
           <<"6", ":", "6", "0", " ", "p", "m", " ", "-", " ", "7", " ", "p", "m">>,
           <<"0", "6", " ", "p", "m", " ", "-", " ", "0", "7", ":", "0", "5", " ", "p", "m">>,
           <<"1", "8", ":", "0", "0", " ", "-", " ", "1", "9", ":", "0", "0">>}

\* A parser that is asked for the time slot of one interval text.
InitInterval ==
    /\ df = <<>>
    /\ config = DEFAULT_CONFIG
    /\ reference_date = DefaultReference
    /\ pc = "constructed"
    /\ result = NoResult
    /\ interval \in IntervalTexts
    /\ slot = NoSlot
    /\ args = NoArgs

\* A call of _parse_time_and_duration(interval).
ParseInterval ==
    /\ pc = "constructed"
    /\ slot' = _parse_time_and_duration(config, interval)
    /\ pc' = "called"
    /\ UNCHANGED <<df, config, reference_date, result, interval, args>>

NextInterval == ParseInterval

SpecInterval == InitInterval /\ [][NextInterval]_vars

\* Values of the configuration's Format.Time: the default, and 24-hour
\* patterns with and without a separator.
TimePatterns ==
    {DEFAULT_CONFIG.Format.Time, <<"%H", ":", "%M">>, <<"%H", "%M">>}

\* The default configuration with another time pattern.
WithTimePattern(pattern) ==
    [DEFAULT_CONFIG EXCEPT !.Format = [DEFAULT_CONFIG.Format EXCEPT !.Time = pattern]]

\* A parser with a configured time pattern that is asked for the time slot
\* of one interval text.
InitPattern ==
    /\ df = <<>>
    /\ config \in {WithTimePattern(pattern) : pattern \in TimePatterns}
    /\ reference_date = DefaultReference
    /\ pc = "constructed"
    /\ result = NoResult
    /\ interval \in IntervalTexts
    /\ slot = NoSlot
    /\ args = NoArgs

NextPattern == ParseInterval

SpecPattern == InitPattern /\ [][NextPattern]_vars

----------------------------------------------------------------------------
(* ScheduleParser.__init__: the configuration is resolved, the grid read.  *)

\* A path at which no file exists.
Absent == [exists |-> FALSE]

\* A config file and the configuration json.load reads from it.
ConfigFile(cfg) == [exists |-> TRUE, content |-> cfg]

\* The configurations found in config files: those that differ from the
\* built-in one.
FileConfigs == CellConfigs \ {DEFAULT_CONFIG}

\* What a path may hold.
ConfigFiles == {Absent} \cup {ConfigFile(cfg) : cfg \in FileConfigs}

\* self.config before __init__ has set it.
NoConfig == [unset |-> TRUE]

\* A call of ScheduleParser(schedule_path, config_path) about to run:
\* config_path is None or a path, explicit is what lies at that path,
\* sibling what lies at parser_config.json beside the schedule file.
InitConfig ==
    /\ df = <<>>
    /\ config = NoConfig
    /\ reference_date = NaT
    /\ pc = "new"
    /\ result = NoResult
    /\ interval = <<>>
    /\ slot = NoSlot
    /\ \E path \in {None, <<"c", ".", "j", "s", "o", "n">>},
          explicit \in ConfigFiles, sibling \in ConfigFiles :
           args = [config_path |-> path, explicit |-> explicit, sibling |-> sibling,
                   reference_date |-> <<"2", "0", "2", "5", "-", "0", "9", "-", "0", "2">>,
                   schedule |-> ScenarioFile]

\* Lines 29-38: the configuration __init__ resolves, or the exception
\* open() raises for a path at which no file exists.
ResolveConfig(a) ==
    IF ~Falsy(a.config_path)
    THEN (IF a.explicit.exists
          THEN [raised |-> "", config |-> a.explicit.content]
          ELSE [raised |-> "FileNotFoundError", config |-> NoConfig])
    ELSE IF a.sibling.exists
    THEN [raised |-> "", config |-> a.sibling.content]
    ELSE [raised |-> "", config |-> DEFAULT_CONFIG]

\* The fields __init__ has set when it ends with the resolution r.
Initialised(r) ==
    IF r.raised # ""
    THEN /\ pc' = "raised"
         /\ config' = config
         /\ df' = df
    ELSE /\ pc' = "constructed"
         /\ config' = r.config
         /\ df' = read_csv(args.schedule)

\* __init__
Construct ==
    /\ pc = "new"
    /\ reference_date' = ReferenceDate(args.reference_date)
    /\ Initialised(ResolveConfig(args))
    /\ UNCHANGED <<result, interval, slot, args>>

NextConfig == Construct \/ ParseSchedule

SpecConfig == InitConfig /\ [][NextConfig]_vars

----------------------------------------------------------------------------
(* ScheduleExpander (src/scheduletools/expander.py).  A table is its       *)
(* column names and a sequence of rows, each row a function from the       *)
(* column names to values.                                                 *)

\* The most rows of an input table.
MaxRows == 1

\* The column names of the tables and configurations.
Names == {"a", "b", "c"}

\* The value the input table holds in a column of its i-th row.
CellValue(col, i) == col \o ToString(i)

\* The input tables: some of the columns, up to MaxRows rows.
InputTable(cols, n) ==
    [columns |-> cols, rows |-> [i \in 1..n |-> [c \in cols |-> CellValue(c, i)]]]

\* The sequences of at most n elements of a set.
SeqsUpTo(S, n) == UNION {[1..k -> S] : k \in 0..n}

\* The "Mapping" objects of a config: source to target, in the order of
\* the file, no source twice.
Mappings ==
    {m \in SeqsUpTo(Names \X Names, 2) :
        \A i, j \in 1..Len(m) : i # j => m[i][1] # m[j][1]}

\* The "defaults" objects of a config.
Defaults == UNION {[D -> {"dflt"}] : D \in SUBSET {"b", "c"}}

\* reverse_mapping: each target to the last source mapped to it.
ReverseMapping(mapping) ==
    [target \in {mapping[i][2] : i \in 1..Len(mapping)} |->
        mapping[CHOOSE i \in 1..Len(mapping) :
                    /\ mapping[i][2] = target
                    /\ \A j \in (i + 1)..Len(mapping) : mapping[j][2] # target][1]]

\* Lines 26-33: the value of one required column for one row.
OutputValue(a, reverse_mapping, row, col) ==
    IF col \in a.df.columns THEN row[col]
    ELSE IF col \in DOMAIN reverse_mapping /\ reverse_mapping[col] \in DOMAIN row
    THEN row[reverse_mapping[col]]
    ELSE IF col \in DOMAIN a.defaults THEN a.defaults[col]
    ELSE ""

\* The keys of a dict filled in the order of a sequence.
KeysInOrder(s) ==
    SelectAt(s, {i \in 1..Len(s) : \A j \in 1..(i - 1) : s[j] # s[i]}, 1)

\* pd.DataFrame(output_data): the columns are the keys of the row dicts; a
\* list of no rows gives a table of no columns.
DataFrame(keys, output_data) ==
    IF Len(output_data) = 0 THEN [columns |-> <<>>, rows |-> <<>>]
    ELSE [columns |-> keys, rows |-> output_data]

\* Lines 21-34: output_data
OutputData(a, reverse_mapping) ==
    [i \in 1..Len(a.df.rows) |->
        [col \in {a.required_columns[k] : k \in 1..Len(a.required_columns)} |->
            OutputValue(a, reverse_mapping, a.df.rows[i], col)]]

\* expand_columns()
expand_columns(a) ==
    DataFrame(KeysInOrder(a.required_columns), OutputData(a, ReverseMapping(a.mapping)))

\* A ScheduleExpander as its __init__ leaves it.
InitExpand ==
    /\ df = <<>>
    /\ config = NoConfig
    /\ reference_date = NaT
    /\ pc = "constructed"
    /\ result = NoResult
    /\ interval = <<>>
    /\ slot = NoSlot
    /\ \E cols \in SUBSET Names, n \in 0..MaxRows, required \in SeqsUpTo(Names, 2),
          defaults \in Defaults, mapping \in Mappings :
           args = [df |-> InputTable(cols, n), required_columns |-> required,
                   defaults |-> defaults, mapping |-> mapping]

\* A call of expand_columns().
ExpandColumns ==
    /\ pc = "constructed"
    /\ result' = expand_columns(args)
    /\ pc' = "expanded"
    /\ UNCHANGED <<df, config, reference_date, interval, slot, args>>

NextExpand == ExpandColumns

SpecExpand == InitExpand /\ [][NextExpand]_vars

----------------------------------------------------------------------------
(* CSVSplitter (src/scheduletools/splitter.py).  A row of the input table  *)
(* is the tuple of its values in the group columns and its position; a     *)
(* written file is the rows of the group it was written from.              *)

\* The most rows of a table to split.
MaxSplitRows == 2

\* The values of the group columns: two that differ in a space against a
\* character no file name may hold, and one apart from both.
KeyValues == {<<"A", " ", "B">>, <<"A", "/", "B">>, <<"C">>}

\* The tuples of key values for one and for two group columns.
KeyTuples == [1..1 -> KeyValues] \cup [1..2 -> KeyValues]

\* The tables of n rows over k group columns.
SplitTables ==
    UNION {[1..n -> [1..k -> KeyValues]] : n \in 0..MaxSplitRows, k \in 1..2}

\* Python's None where a list of texts is expected; no list equals it, a
\* list's elements being texts.
NoList == <<None>>

\* `not x` for a list of texts or None.
NoValues(x) == x = NoList \/ Len(x) = 0

\* The include and exclude lists: None, or a list of one value.
ValueLists == {NoList} \cup {<<v>> : v \in KeyValues}

\* The characters _sanitize_filename replaces.
Unsafe == {"<", ">", ":", "\"", "/", "\\", "|", "?", "*"}

\* _sanitize_filename(name)
_sanitize_filename(name) ==
    [i \in 1..Len(name) |-> IF name[i] \in Unsafe THEN "_" ELSE name[i]]

\* str.replace(" ", "_")
SpacesReplaced(name) ==
    [i \in 1..Len(name) |-> IF name[i] = " " THEN "_" ELSE name[i]]

\* "_".join(texts)
RECURSIVE Join(_)
Join(texts) ==
    IF Len(texts) = 0 THEN <<>>
    ELSE IF Len(texts) = 1 THEN texts[1]
    ELSE texts[1] \o <<"_">> \o Join(Tail(texts))

\* Whether a list is given and holds one of the keys.
AnyIn(keys, list) == \E i \in 1..Len(keys) : \E j \in 1..Len(list) : keys[i] = list[j]

\* _should_include(group_keys)
_should_include(a, keys) ==
    IF ~NoValues(a.include_values) /\ ~AnyIn(keys, a.include_values) THEN FALSE
    ELSE IF ~NoValues(a.exclude_values) /\ AnyIn(keys, a.exclude_values) THEN FALSE
    ELSE TRUE

\* Python's < on tuples of str of one length.
RECURSIVE TupleLess(_, _)
TupleLess(x, y) ==
    IF Len(x) = 0 THEN FALSE
    ELSE IF x[1] # y[1] THEN StrLess(x[1], y[1])
    ELSE TupleLess(Tail(x), Tail(y))

\* One key tuple put into a sorted sequence of distinct key tuples.
RECURSIVE InsertKey(_, _)
InsertKey(sorted, keys) ==
    IF Len(sorted) = 0 THEN <<keys>>
    ELSE IF keys = Head(sorted) THEN sorted
    ELSE IF TupleLess(keys, Head(sorted)) THEN <<keys>> \o sorted
    ELSE <<Head(sorted)>> \o InsertKey(Tail(sorted), keys)

\* df.groupby(group_columns): the distinct key tuples, sorted.
RECURSIVE GroupKeys(_)
GroupKeys(rows) ==
    IF Len(rows) = 0 THEN <<>>
    ELSE InsertKey(GroupKeys(Slice(rows, 1, Len(rows) - 1)), rows[Len(rows)])

\* group_df: the positions of the rows with the given keys.
GroupRows(rows, keys) == {i \in 1..Len(rows) : rows[i] = keys}

\* Lines 38-43: the path a group is written to, the input file being s.csv.
OutputPath(keys) ==
    <<"s", "_">>
        \o Join([i \in 1..Len(keys) |-> _sanitize_filename(SpacesReplaced(keys[i]))])
        \o <<".", "c", "s", "v">>

\* The groups the loop does not skip, in the order it meets them.
IncludedGroups(a, groups) ==
    SelectAt(groups, {i \in 1..Len(groups) : _should_include(a, groups[i])}, 1)

\* The files the loop leaves: each path holds what was written to it last.
Written(rows, paths, groups) ==
    [path \in {paths[i] : i \in 1..Len(paths)} |->
        GroupRows(rows, groups[CHOOSE i \in 1..Len(paths) :
                                   /\ paths[i] = path
                                   /\ \A j \in (i + 1)..Len(paths) : paths[j] # path])]

\* Lines 34-48 for the groups that are written.
Exported(rows, groups) ==
    [file_paths |-> [i \in 1..Len(groups) |-> OutputPath(groups[i])],
     files |-> Written(rows, [i \in 1..Len(groups) |-> OutputPath(groups[i])], groups)]

\* split_and_export(): the paths returned and the files written.
split_and_export(a) == Exported(a.df, IncludedGroups(a, GroupKeys(a.df)))

\* A CSVSplitter as its __init__ leaves it.
InitSplit ==
    /\ df = <<>>
    /\ config = NoConfig
    /\ reference_date = NaT
    /\ pc = "constructed"
    /\ result = NoResult
    /\ interval = <<>>
    /\ slot = NoSlot
    /\ \E table \in SplitTables, include \in ValueLists, exclude \in ValueLists :
           args = [df |-> table, include_values |-> include, exclude_values |-> exclude]

\* A call of split_and_export().
SplitAndExport ==
    /\ pc = "constructed"
    /\ result' = split_and_export(args)
    /\ pc' = "split"
    /\ UNCHANGED <<df, config, reference_date, interval, slot, args>>

NextSplit == SplitAndExport

SpecSplit == InitSplit /\ [][NextSplit]_vars

----------------------------------------------------------------------------
(* Properties of parse_schedule on files with anomalies (Spec).            *)

\* Whether the grid's marker row holds the marker, trimmed, in any case.
HasMarkerCell(d) ==
    \E c \in 1..NumCols(d) :
        d[c][2].t = "str" /\ Lower(Strip(d[c][2].s)) = <<"d", "a", "t", "e">>

MarkerCols(d) ==
    {c \in 1..NumCols(d) :
        d[c][2].t = "str" /\ Lower(Strip(d[c][2].s)) = <<"d", "a", "t", "e">>}

\* The marker column of the block a column lies in, 0 when it lies in none.
BlockOf(d, c) ==
    IF \E b \in MarkerCols(d) : b <= c
    THEN CHOOSE b \in MarkerCols(d) : b <= c /\ \A x \in MarkerCols(d) : x <= c => x <= b
    ELSE 0

\* The data columns that lie in a block.
DataCols(d) == {c \in 1..NumCols(d) : BlockOf(d, c) \notin {0, c}}

\* The grid's data rows.
DataRows(d) == 4..NumRows(d)

\* C1: for every grid whose marker row holds no cell equal to the marker
\* (trimmed, case-insensitive), parse_schedule fails with a NoBlocksFound
\* error; it never returns an empty result for such a grid.
C1_NoMarkerRaisesNoBlocksFound ==
    (pc = "parsed" /\ ~HasMarkerCell(df)) => result.raised = "NoBlocksFound"

\* A date cell no entry may come from: empty, a meta row, or no date.
AnomalousDate(cfg, cell) ==
    \/ cell.t = "nan"
    \/ Contains(Lower(cell.s), <<"i", "c", "e">>)
    \/ ToDatetime(cell.s, cfg.Format.Date).kind # "ts"

\* A time header no entry may come from: empty, not a text, or a text
\* that is no interval.
AnomalousHeader(cfg, cell) ==
    \/ cell.t # "str"
    \/ _parse_time_and_duration(cfg, cell.s).start_time = None

\* The grid without column c, and without row r.
DropColumn(d, c) == SelectAt(d, (1..Len(d)) \ {c}, 1)

DropRow(d, r) == [c \in 1..Len(d) |-> SelectAt(d[c], (1..Len(d[c])) \ {r}, 1)]

\* C9: cell-level anomalies never abort a parse and never change what
\* sibling cells produce: for every grid with a marker, whatever sits in a
\* time header, date or participant cell, parse_schedule completes without
\* raising, and the entries are those of the grid without the anomalous
\* cell's column (an anomalous time header) or row (anomalous dates).
C9_AnomaliesNeverAbort ==
    (pc = "parsed" /\ HasMarkerCell(df)) =>
        /\ result.raised = ""
        /\ \A c \in DataCols(df) :
               AnomalousHeader(config, df[c][3]) =>
                   parse_schedule(config, reference_date, DropColumn(df, c)) = result
        /\ \A r \in DataRows(df) :
               (\A b \in MarkerCols(df) : AnomalousDate(config, df[b][r])) =>
                   parse_schedule(config, reference_date, DropRow(df, r)) = result

\* Whether output row e is what the cell at data column c and row r gives:
\* a column of a block with a time slot, a date that is present, parses and
\* is no meta row, a participant cell that is not empty, and the entry's
\* Date, Start Time, Duration and Team read from those three cells.
TracesTo(cfg, d, e, c, r) ==
    LET header == d[c][3]
        date_cell == d[BlockOf(d, c)][r]
        team_cell == d[c][r]
        ts == _parse_time_and_duration(cfg, header.s)
        date_obj == ToDatetime(date_cell.s, cfg.Format.Date)
    IN  /\ header.t = "str" /\ ts.start_time # None /\ ts.duration # None
        /\ date_cell.t # "nan"
        /\ ~Contains(Lower(date_cell.s), <<"i", "c", "e">>)
        /\ date_obj.kind = "ts"
        /\ team_cell.t # "nan" /\ Len(Strip(team_cell.s)) > 0
        /\ e.Start_Time = ts.start_time /\ e.Duration = ts.duration
        /\ ToDatetime(e.Date, cfg.Format.Date) = date_obj
        /\ Len(e.Team) > 0 /\ Contains(team_cell.s, e.Team)

\* C10: every entry of the output traces back to a grid triple (date row,
\* data column, participant token) whose column's interval parsed to a time
\* slot, whose date cell is non-empty, parses and holds no "ice", and whose
\* participant cell is non-empty (the default configuration): none comes
\* from a column without a slot, an empty-date row, an "ice" row or an
\* empty participant cell.
C10_EntriesTraceToValidCells ==
    pc = "parsed" =>
        \A k \in 1..Len(result.table) :
            \E c \in DataCols(df), r \in DataRows(df) :
                TracesTo(config, df, result.table[k], c, r)

\* Entries are emitted from a grid that also holds a meta row with a
\* participant under a column with a time slot.
C10_Witness ==
    /\ pc = "parsed"
    /\ Len(result.table) > 0
    /\ \E c \in DataCols(df), r \in DataRows(df) :
           /\ ~AnomalousHeader(config, df[c][3])
           /\ df[c][r].t = "str"
           /\ df[BlockOf(df, c)][r].t = "str"
           /\ Contains(Lower(df[BlockOf(df, c)][r].s), <<"i", "c", "e">>)

----------------------------------------------------------------------------
(* Properties of the merged, sorted and indexed table (SpecOrder).         *)

\* An output row without its Index.
Unindexed(e) ==
    [Week |-> e.Week, Day |-> e.Day, Date |-> e.Date,
     Start_Time |-> e.Start_Time, Duration |-> e.Duration, Team |-> e.Team]

UnindexedTable(table) == [k \in 1..Len(table) |-> Unindexed(table[k])]

\* A row's day, and its start as minutes since midnight, both parsed from
\* the texts the row shows.
RowDay(cfg, e) == OrdinalOf(ToDatetime(e.Date, cfg.Format.Date))

RowStart(cfg, e) == ToDatetime(e.Start_Time, cfg.Format.Time).minutes

\* C2: in the table returned, for every pair of adjacent rows i and i+1, the
\* pair (Date, Start Time) of row i, compared as parsed calendar date and
\* parsed time of day, is less than or equal to that of row i+1.
C2_SortedByParsedDateAndTime ==
    pc = "parsed" =>
        \A k \in 1..(Len(result.table) - 1) :
            LET a == result.table[k]
                b == result.table[k + 1]
            IN  \/ RowDay(config, a) < RowDay(config, b)
                \/ /\ RowDay(config, a) = RowDay(config, b)
                   /\ RowStart(config, a) <= RowStart(config, b)

\* C3: in every non-empty table returned, the Index of the row at sorted
\* position k is k, for k = 0..n-1.
C3_IndexIsDenseRank ==
    pc = "parsed" =>
        \A k \in 1..Len(result.table) : result.table[k].Index = k - 1

\* The rows as emitted, before the sort.
EmittedRows == Flatten(NonEmptyFrames(config, reference_date, df))

\* A table of three rows or more whose first row is not the first emitted.
C3_Witness ==
    /\ pc = "parsed"
    /\ Len(result.table) >= 3
    /\ Unindexed(result.table[1]) # EmittedRows[1]

\* The rows of the grid read column by column from the left, each column
\* from its top row down, each cell's participants from the left.
RowsInGridOrder(cfg, ref, d) ==
    Flatten([c \in 1..NumCols(d) |->
        IF c \notin DataCols(d) \/ AnomalousHeader(cfg, d[c][3]) THEN <<>>
        ELSE Flatten([i \in 1..(NumRows(d) - 3) |->
                 CellRows(cfg, ref, _parse_time_and_duration(cfg, d[c][3].s),
                          d[BlockOf(d, c)][3 + i], d[c][3 + i])])])

SameKey(a, b) == a.Date = b.Date /\ a.Start_Time = b.Start_Time

\* The rows of s that share e's sort key, in their order in s.
WithKeyOf(s, e) == LET Test(x) == SameKey(x, e) IN SelectSeq(s, Test)

\* The Team column.
Teams(table) == [k \in 1..Len(table) |-> table[k].Team]

\* C4: entries whose (Date, Start Time) sort keys are equal appear in the
\* output in their original emission order (blocks left to right, data
\* columns left to right, rows top to bottom, tokens left to right); the
\* two-block scenario yields exactly the rows 16U, 18U, 12U in that order.
C4_TiesKeepEmissionOrder ==
    (pc = "parsed" /\ result.raised = "") =>
        LET out == UnindexedTable(result.table)
            emitted == RowsInGridOrder(config, reference_date, df)
        IN  /\ Len(out) = Len(emitted)
            /\ \A k \in 1..Len(emitted) :
                   WithKeyOf(out, emitted[k]) = WithKeyOf(emitted, emitted[k])
            /\ df = read_csv(ScenarioFile) =>
                   Teams(result.table) = <<<<"1", "6", "U">>, <<"1", "8", "U">>, <<"1", "2", "U">>>>

\* The scenario's file has been parsed: three rows with one sort key, from
\* two blocks.
C4_Witness ==
    /\ pc = "parsed"
    /\ df = read_csv(ScenarioFile)
    /\ Len(result.table) = 3
    /\ \A k \in 1..3 : SameKey(result.table[k], result.table[1])

\* The frames dfs with their order permuted by perm.
Permuted(dfs, perm) == [i \in 1..Len(dfs) |-> dfs[perm[i]]]

\* C5: the merged, sorted and indexed result is the same for every order in
\* which the blocks are processed and concatenated, also when entries of
\* different blocks share the same (Date, Start Time).
C5_BlockOrderIrrelevant ==
    (pc = "parsed" /\ result.raised = "" /\ Len(result.table) > 0) =>
        LET dfs == NonEmptyFrames(config, reference_date, df)
        IN  \A perm \in Permutations(1..Len(dfs)) :
                MergeAndOrder(config, Permuted(dfs, perm)) = result.table

\* How often row e occurs in s.
Count(s, e) == Cardinality({k \in 1..Len(s) : s[k] = e})

\* Whether two rows of different frames share a sort key.
CrossBlockTie(dfs) ==
    \E i, j \in 1..Len(dfs) :
        /\ i # j
        /\ \E a \in 1..Len(dfs[i]), b \in 1..Len(dfs[j]) :
               SameKey(dfs[i][a], dfs[j][b])

\* C5, amended: permuting the blocks before the merge leaves the output's
\* rows (as a multiset) and its sequence of (Date, Start Time) keys
\* unchanged, and the whole table unchanged when no two entries of
\* different blocks share a (Date, Start Time).
C5_BlockOrderUpToTies ==
    (pc = "parsed" /\ result.raised = "" /\ Len(result.table) > 0) =>
        LET dfs == NonEmptyFrames(config, reference_date, df)
            out == UnindexedTable(result.table)
        IN  \A perm \in Permutations(1..Len(dfs)) :
                LET other == UnindexedTable(MergeAndOrder(config, Permuted(dfs, perm)))
                IN  /\ Len(other) = Len(out)
                    /\ \A k \in 1..Len(out) :
                           /\ SameKey(other[k], out[k])
                           /\ Count(other, out[k]) = Count(out, out[k])
                    /\ ~CrossBlockTie(dfs) => other = out

\* Two blocks gave rows, no two of them with one sort key, and the sort
\* moved a row of the second block before a row of the first.
C5_Witness ==
    /\ pc = "parsed"
    /\ Len(NonEmptyFrames(config, reference_date, df)) = 2
    /\ ~CrossBlockTie(NonEmptyFrames(config, reference_date, df))
    /\ UnindexedTable(result.table) # EmittedRows

----------------------------------------------------------------------------
(* Properties of one participant cell (SpecCell).                          *)

\* The positions of s in p..q that hold no blank.
NonBlank(s, p, q) == {i \in p..q : s[i] # " "}

\* s[p..q] without the blanks at its two ends.
Trimmed(s, p, q) ==
    LET nb == NonBlank(s, p, q)
    IN  IF nb = {} THEN <<>>
        ELSE Slice(s, CHOOSE i \in nb : \A j \in nb : i <= j,
                      CHOOSE i \in nb : \A j \in nb : j <= i)

\* Where the pieces of s between separators start, and where the piece
\* starting at p ends.
PieceStarts(s, sep) == {1} \cup {i + 1 : i \in {j \in 1..Len(s) : s[j] = sep}}

PieceEnd(s, sep, p) ==
    LET stops == {j \in p..Len(s) : s[j] = sep} \cup {Len(s) + 1}
    IN  (CHOOSE j \in stops : \A x \in stops : j <= x) - 1

\* The trimmed non-empty tokens of s split on sep, left to right.
Tokens(s, sep) ==
    LET starts == {p \in PieceStarts(s, sep) : NonBlank(s, p, PieceEnd(s, sep, p)) # {}}
        Nth(k) == CHOOSE p \in starts : Cardinality({x \in starts : x < p}) = k - 1
    IN  [k \in 1..Cardinality(starts) |-> Trimmed(s, Nth(k), PieceEnd(s, sep, Nth(k)))]

\* The participant cell of a one-cell file.
TheCell == df[2][4]

\* What one cell must give: with skip-split false one entry per token, with
\* skip-split true one entry of the whole trimmed text, all on the cell's
\* date and time slot.
FanOut ==
    /\ result.raised = ""
    /\ IF config.Split.Skip
       THEN Teams(result.table) = <<Trimmed(TheCell.s, 1, Len(TheCell.s))>>
       ELSE Teams(result.table) = Tokens(TheCell.s, config.Split.Separator)
    /\ \A k \in 1..Len(result.table) :
           /\ result.table[k].Week = -7
           /\ result.table[k].Day = "Monday"
           /\ result.table[k].Date = <<"0", "7", "/", "2", "1", "/", "2", "0", "2", "5">>
           /\ result.table[k].Start_Time = <<"6", ":", "0", "0", " ", "P", "M">>
           /\ result.table[k].Duration = <<"1", ":", "0", "0">>
    /\ (TheCell.s = <<"A", " ", "/", " ", "B">> /\ config.Split.Separator = "/" /\ ~config.Split.Skip)
           => Teams(result.table) = <<<<"A">>, <<"B">>>>

\* C6: with skip-split false, a non-empty participant cell on a valid date
\* row under a valid time column emits exactly one entry per trimmed
\* non-empty token of the cell split on the separator, the entries alike but
\* for Team ('A / B' gives 'A' and 'B'); with skip-split true the same cell
\* emits exactly one entry whose Team is the whole trimmed text.
C6_FanOutPerToken ==
    (pc = "parsed" /\ TheCell.t # "nan") => FanOut

\* C6, amended: the same for a participant cell that is not blank (its
\* trimmed text is not empty).
C6_FanOutPerTokenOfNonBlankCell ==
    (pc = "parsed" /\ TheCell.t # "nan" /\ NonBlank(TheCell.s, 1, Len(TheCell.s)) # {})
        => FanOut

\* 'A / B' has been split on '/' into the entries A and B.
C6_Witness ==
    /\ pc = "parsed"
    /\ TheCell.s = <<"A", " ", "/", " ", "B">>
    /\ config.Split.Separator = "/" /\ ~config.Split.Skip
    /\ Len(result.table) = 2
    /\ result.table[1].Team = <<"A">> /\ result.table[2].Team = <<"B">>

----------------------------------------------------------------------------
(* Properties of _parse_time_and_duration (SpecInterval).                  *)

\* The positions of the separator in a text.
DashesOf(s) == {i \in 1..Len(s) : s[i] = "-"}

\* The two halves of a text with one separator, trimmed and in lower case.
LeftHalf(s) ==
    LET k == CHOOSE i \in DashesOf(s) : TRUE
    IN  Lower(Trimmed(s, 1, k - 1))

RightHalf(s) ==
    LET k == CHOOSE i \in DashesOf(s) : TRUE
    IN  Lower(Trimmed(s, k + 1, Len(s)))

\* Whether a text is a time of day, as "hour am/pm" or "hour:minute am/pm".
IsTimeOfDay(s) ==
    \E fmt \in {time_format_attempts[1], time_format_attempts[2]} :
        ToDatetime(s, fmt).kind = "ts"

\* The minutes since midnight of a time of day.
MinutesOfDay(s) ==
    LET fmt == CHOOSE f \in {time_format_attempts[1], time_format_attempts[2]} :
                   ToDatetime(s, f).kind = "ts"
    IN  ToDatetime(s, fmt).minutes

\* Whether an interval text has two halves that are both times of day.
BothHalvesParse(s) ==
    /\ Cardinality(DashesOf(s)) = 1
    /\ IsTimeOfDay(LeftHalf(s))
    /\ IsTimeOfDay(RightHalf(s))

\* Whether text d reads H:MM and stands for the given number of minutes:
\* hours without padding, a colon, minutes in two digits.
IsHMM(d, minutes) ==
    /\ Len(d) >= 4
    /\ d[Len(d) - 2] = ":"
    /\ AllDigits(Slice(d, 1, Len(d) - 3))
    /\ (Len(d) > 4 => d[1] # "0")
    /\ IsDigit(d[Len(d) - 1]) /\ IsDigit(d[Len(d)])
    /\ StrToNat(Slice(d, Len(d) - 1, Len(d))) < 60
    /\ StrToNat(Slice(d, 1, Len(d) - 3)) * 60
           + StrToNat(Slice(d, Len(d) - 1, Len(d))) = minutes

\* C7: for every interval whose two halves both parse as times of day,
\* _parse_time_and_duration returns Duration = end - start if end >= start,
\* and end + 24h - start if end is before start, as H:MM with two-digit
\* minutes: always within 0:00..23:59, 0:00 for equal start and end, and
\* 2:00 with start time 11:00 PM for '11 pm - 1 am'.
C7_DurationWrapsMidnight ==
    (pc = "called" /\ BothHalvesParse(interval)) =>
        LET start == MinutesOfDay(LeftHalf(interval))
            end == MinutesOfDay(RightHalf(interval))
            expected == IF end >= start THEN end - start ELSE end + 24 * 60 - start
        IN  /\ slot.duration # None
            /\ IsHMM(slot.duration, expected)
            /\ expected \in 0..(23 * 60 + 59)
            /\ start = end => slot.duration = <<"0", ":", "0", "0">>
            /\ interval = <<"1", "1", " ", "p", "m", " ", "-", " ", "1", " ", "a", "m">> =>
                   /\ slot.duration = <<"2", ":", "0", "0">>
                   /\ slot.start_time = <<"1", "1", ":", "0", "0", " ", "P", "M">>

\* '11 pm - 1 am' has been parsed, across midnight.
C7_Witness ==
    /\ pc = "called"
    /\ interval = <<"1", "1", " ", "p", "m", " ", "-", " ", "1", " ", "a", "m">>
    /\ BothHalvesParse(interval)
    /\ slot.duration = <<"2", ":", "0", "0">>

----------------------------------------------------------------------------
(* Properties of the Week column (SpecWeek).                               *)

\* The days from the reference date to a row's date.
DaysFromReference(e) ==
    OrdinalOf(ToDatetime(e.Date, config.Format.Date)) - OrdinalOf(reference_date)

\* C8: for every emitted entry, Week is the floor of (entry date -
\* reference date in whole days) / 7, rounding toward negative infinity:
\* with reference date 2025-09-02, 2025-09-02..2025-09-08 give 0, 2025-09-09
\* gives 1, 2025-08-26..2025-09-01 give -1, and no earlier date gives 0.
C8_WeekIsFloorOfDaysBySeven ==
    pc = "parsed" =>
        \A k \in 1..Len(result.table) :
            LET e == result.table[k]
                days == DaysFromReference(e)
            IN  /\ 7 * e.Week <= days /\ days < 7 * e.Week + 7
                /\ days < 0 => e.Week < 0
                /\ reference_date = [kind |-> "ts", Y |-> 2025, m |-> 9, d |-> 2, minutes |-> 0] =>
                       /\ e.Date \in {<<"0", "9", "/", "0", "2", "/", "2", "0", "2", "5">>, <<"0", "9", "/", "0", "8", "/", "2", "0", "2", "5">>} => e.Week = 0
                       /\ e.Date = <<"0", "9", "/", "0", "9", "/", "2", "0", "2", "5">> => e.Week = 1
                       /\ e.Date \in {<<"0", "8", "/", "2", "6", "/", "2", "0", "2", "5">>, <<"0", "9", "/", "0", "1", "/", "2", "0", "2", "5">>} => e.Week = -1

\* The day before the reference date 2025-09-02 has been given Week -1.
C8_Witness ==
    /\ pc = "parsed"
    /\ reference_date = [kind |-> "ts", Y |-> 2025, m |-> 9, d |-> 2, minutes |-> 0]
    /\ Len(result.table) = 1
    /\ result.table[1].Date = <<"0", "9", "/", "0", "1", "/", "2", "0", "2", "5">>
    /\ result.table[1].Week = -1

----------------------------------------------------------------------------
(* Properties of the blocks parse_schedule cuts the grid into (Spec).      *)

\* The j-th marker column from the left.
NthMarker(d, j) ==
    CHOOSE m \in MarkerCols(d) : Cardinality({x \in MarkerCols(d) : x < m}) = j - 1

\* The last column of the j-th block: the one before the next marker, or
\* the grid's last.
BlockEnd(d, j) ==
    IF j < Cardinality(MarkerCols(d)) THEN NthMarker(d, j + 1) - 1 ELSE NumCols(d)

\* A column without the rows from the fourth on whose cell in column first
\* is empty.
MaskedColumn(col, first) ==
    LET numbered == [r \in 1..Len(col) |-> <<r, col[r]>>]
        Keep(x) == x[1] <= 3 \/ first[x[1]].t # "nan"
        kept == SelectSeq(numbered, Keep)
    IN  [r \in 1..Len(kept) |-> kept[r][2]]

\* C11: markers m_1 < ... < m_k (k >= 1) in the marker row of a grid of
\* width W give exactly k blocks from left to right, block j of the columns
\* m_j up to the one before m_(j+1), the last one up to the grid's last
\* column; the blocks are pairwise disjoint, the columns left of m_1 are in
\* no block, one marker gives one block from the marker to the grid's end;
\* in each block the first three rows are kept and a later row is kept iff
\* its first cell is not empty.
C11_BlocksFollowMarkers ==
    (pc = "parsed" /\ MarkerCols(df) # {}) =>
        LET k == Cardinality(MarkerCols(df))
            blocks == Blocks(df)
        IN  /\ Len(blocks) = k
            /\ \A j \in 1..k :
                   /\ BlockCols(df, j) = NthMarker(df, j)..BlockEnd(df, j)
                   /\ blocks[j] =
                          [c \in 1..(BlockEnd(df, j) - NthMarker(df, j) + 1) |->
                              MaskedColumn(df[NthMarker(df, j) + c - 1],
                                           df[NthMarker(df, j)])]
            /\ \A i, j \in 1..k :
                   i # j => BlockCols(df, i) \cap BlockCols(df, j) = {}
            /\ \A c \in 1..(NthMarker(df, 1) - 1) :
                   \A j \in 1..k : c \notin BlockCols(df, j)
            /\ k = 1 => BlockCols(df, 1) = NthMarker(df, 1)..NumCols(df)

\* A grid with two markers has been parsed whose first block lost a row
\* that its second block kept.
C11_Witness ==
    /\ pc = "parsed"
    /\ Cardinality(MarkerCols(df)) = 2
    /\ Len(Blocks(df)) = 2
    /\ Len(Blocks(df)[1][1]) < Len(Blocks(df)[2][1])
    /\ Len(Blocks(df)[2][1]) = NumRows(df)

----------------------------------------------------------------------------
(* Properties of the configuration __init__ resolves (SpecConfig).         *)

\* Whether the explicit config path was given and a file exists there.
ExplicitExists == ~Falsy(args.config_path) /\ args.explicit.exists

\* The configuration of the first source that exists: the explicit path,
\* then the sibling file, then the built-in default.
FirstExisting ==
    IF ExplicitExists THEN args.explicit.content
    ELSE IF args.sibling.exists THEN args.sibling.content
    ELSE DEFAULT_CONFIG

\* C12: __init__ resolves the configuration of the first source that
\* exists, in the order explicit config path, sibling parser_config.json,
\* built-in default, for every combination of path given or not, explicit
\* file present or missing, sibling file present or missing; the built-in
\* default is used iff neither file exists.
C12_FirstExistingSourceWins ==
    pc # "new" =>
        /\ pc # "raised"
        /\ config = FirstExisting
        /\ config = DEFAULT_CONFIG <=> (~ExplicitExists /\ ~args.sibling.exists)

----------------------------------------------------------------------------
(* Properties of expand_columns (SpecExpand).                              *)

\* The elements of a sequence.
Range(s) == {s[i] : i \in 1..Len(s)}

\* The input columns that the Mapping sends to a column.
SourcesOf(col) ==
    {args.mapping[i][1] : i \in {k \in 1..Len(args.mapping) : args.mapping[k][2] = col}}
        \cap args.df.columns

\* Whether v is the value a required column must get for the i-th row: the
\* row's own value, else that of a mapped source column the input has,
\* else the default, else the empty text.
RightValue(v, i, col) ==
    IF col \in args.df.columns THEN v = args.df.rows[i][col]
    ELSE IF SourcesOf(col) # {} THEN \E s \in SourcesOf(col) : v = args.df.rows[i][s]
    ELSE IF col \in DOMAIN args.defaults THEN v = args.defaults[col]
    ELSE v = ""

\* C13: expand_columns returns one output row per input row with exactly
\* the Required columns; each required column holds the input's value of
\* that column if the input has it, else the value of the source column the
\* Mapping sends to it if the input has that, else its default, else the
\* empty text.
C13_ExpandByPriority ==
    pc = "expanded" =>
        /\ Len(result.rows) = Len(args.df.rows)
        /\ Range(result.columns) = Range(args.required_columns)
        /\ \A i \in 1..Len(result.rows) :
               /\ DOMAIN result.rows[i] = Range(args.required_columns)
               /\ \A col \in Range(args.required_columns) :
                      RightValue(result.rows[i][col], i, col)

----------------------------------------------------------------------------
(* Properties of split_and_export (SpecSplit).                             *)

\* Whether a list is given.
Given(list) == list # NoList /\ Len(list) > 0

\* Whether a group passes the filters: no include list or one of its key
\* values in it, and none of its key values in the exclude list.
PassesFilters(keys) ==
    /\ Given(args.include_values) =>
           \E i \in 1..Len(keys) : keys[i] \in Range(args.include_values)
    /\ Given(args.exclude_values) =>
           \A i \in 1..Len(keys) : keys[i] \notin Range(args.exclude_values)

\* The distinct key combinations of the table that pass the filters.
IncludedKeys == {keys \in Range(args.df) : PassesFilters(keys)}

\* C14: split_and_export writes one sub-table per distinct group-key
\* combination that passes the filters, each to a file of its own: the
\* returned paths are pairwise distinct, as many as the included groups,
\* and each included group's rows are in a file when the call ends, also
\* when key values differ only in spaces, underscores or characters the
\* sanitization replaces.
C14_OneFilePerIncludedGroup ==
    pc = "split" =>
        /\ Len(result.file_paths) = Cardinality(IncludedKeys)
        /\ \A i, j \in 1..Len(result.file_paths) :
               i # j => result.file_paths[i] # result.file_paths[j]
        /\ \A keys \in IncludedKeys :
               \E path \in DOMAIN result.files :
                   result.files[path] = {i \in 1..Len(args.df) : args.df[i] = keys}

----------------------------------------------------------------------------
(* Properties of the Start Time under a configured pattern (SpecPattern).  *)

\* The start of an interval whose halves are times of day.
StartOf(s) ==
    LET fmt == CHOOSE f \in {time_format_attempts[1], time_format_attempts[2]} :
                   ToDatetime(LeftHalf(s), f).kind = "ts"
    IN  ToDatetime(LeftHalf(s), fmt)

\* A text with its first character removed if that is a zero.
LessOneZero(s) == IF Len(s) > 0 /\ s[1] = "0" THEN Tail(s) ELSE s

\* C15: for every parseable interval and every configured time pattern,
\* the Start Time of _parse_time_and_duration is the start formatted with
\* the pattern with at most the single leading zero of the hour removed;
\* the hour digits are never removed and the result is never empty, so the
\* column of a parseable interval is never skipped as one without TimeSlot.
C15_StartTimeLosesOneZeroAtMost ==
    (pc = "called" /\ BothHalvesParse(interval)) =>
        /\ slot.start_time # None
        /\ slot.start_time \in
               {Strftime(StartOf(interval), config.Format.Time),
                LessOneZero(Strftime(StartOf(interval), config.Format.Time))}
        /\ Len(slot.start_time) > 0
        /\ ~NoTimeSlot(slot)

============================================================================
